---- MODULE Spec2Model ----
(***************************************************************************)
(* photo_elo (src/main.py): pairwise Elo ranking of the images of a        *)
(* directory, persisted in a text file of "name:score" lines.              *)
(*                                                                         *)
(* Text is modelled as sequences of one-character strings; the extension   *)
(* of a file name is a single token (".png", ".JPG", ".txt").              *)
(* Python floats (binary64) are modelled in fixed point: a score is an     *)
(* integer number of 1/SCALE points, and every float result is rounded to  *)
(* that resolution, as binary64 rounds to its own.  Python's int 1000 and  *)
(* float 1000.0 are told apart by the field ty, because they print         *)
(* differently.                                                            *)
(***************************************************************************)
EXTENDS Integers, Sequences, FiniteSets, TLC

VARIABLES
    dir,              \* names of the entries of IMAGE_DIR
    disk,             \* RANKINGS_FILE: whether it exists, and its lines
    image_filenames,  \* global image_filenames: a list of names, or None
    elo_rankings,     \* global elo_rankings: a dict, as the list of its [k, v]
    current_pair,     \* global current_pair: None or <<left, right>>
    top_images,       \* what show_rankings last displayed, or None
    pc,               \* control position of the process
    wbuf,             \* lines written by save_rankings and not yet flushed
    todo,             \* lines save_rankings has still to write
    call              \* the last call made and how it ended

vars == <<dir, disk, image_filenames, elo_rankings, current_pair,
          top_images, pc, wbuf, todo, call>>

\* ------------------------------------------------------------------------
\* Program constants
\* ------------------------------------------------------------------------
DEFAULT_ELO == 1000
K_FACTOR == 32

\* ------------------------------------------------------------------------
\* Bounds of the model
\* ------------------------------------------------------------------------
MaxLines == 2      \* lines of an initial score file
MaxUpdates == 2    \* elo_update calls in one behaviour
MaxSaves == 1      \* save_rankings calls in one behaviour

\* Resolution of the fixed-point model of binary64: 1/SCALE.
SCALE == 1000

\* Python's None, for the globals that hold a list or a pair.
None == <<>>
\* How a call ends: NoErr, or the name of the exception it raises.
NoErr == "-"
\* RANKINGS_FILE when os.path.exists is false, and a file of given lines.
NoFile == [exists |-> FALSE, lines |-> <<>>]
File(ls) == [exists |-> TRUE, lines |-> ls]

\* ------------------------------------------------------------------------
\* Text
\* ------------------------------------------------------------------------
Digits == <<"0", "1", "2", "3", "4", "5", "6", "7", "8", "9">>
DigitSet == {Digits[i] : i \in 1..10}
DigitVal(c) == (CHOOSE i \in 1..10 : Digits[i] = c) - 1

\* str.strip() removes leading and trailing whitespace.
WS == {" "}

RECURSIVE LStrip(_)
LStrip(s) ==
    IF s # <<>> /\ Head(s) \in WS THEN LStrip(Tail(s)) ELSE s

RECURSIVE RStrip(_)
RStrip(s) ==
    IF s # <<>> /\ s[Len(s)] \in WS THEN RStrip(SubSeq(s, 1, Len(s) - 1)) ELSE s

Strip(s) == RStrip(LStrip(s))

\* str.split(sep): the fields between the occurrences of sep.
RECURSIVE Split(_, _)
Split(s, sep) ==
    IF \E i \in 1..Len(s) : s[i] = sep
    THEN LET i == CHOOSE j \in 1..Len(s) :
                      s[j] = sep /\ \A h \in 1..(j - 1) : s[h] # sep
         IN <<SubSeq(s, 1, i - 1)>> \o Split(SubSeq(s, i + 1, Len(s)), sep)
    ELSE <<s>>

\* Code-point order of the characters of the model's alphabet.
Alphabet == <<" ", "-", ".", ".JPG", ".png", ".txt",
              "0", "1", "2", "3", "4", "5", "6", "7", "8", "9",
              ":", "a", "b", "x", "z">>
Ord(c) == CHOOSE i \in 1..Len(Alphabet) : Alphabet[i] = c

\* Python's str comparison a < b: lexicographic by code point.
RECURSIVE StrLess(_, _)
StrLess(a, b) ==
    IF b = <<>> THEN FALSE
    ELSE IF a = <<>> THEN TRUE
    ELSE IF Head(a) # Head(b) THEN Ord(Head(a)) < Ord(Head(b))
    ELSE StrLess(Tail(a), Tail(b))

\* ------------------------------------------------------------------------
\* Numbers: scores are [ty, v] with v in units of 1/SCALE.
\* ------------------------------------------------------------------------
PyInt(n) == [ty |-> "int", v |-> n * SCALE]
PyFloat(u) == [ty |-> "float", v |-> u]

\* a / b rounded to the nearest integer, for a >= 0 and b > 0.
RoundDiv(a, b) == (2 * a + b) \div (2 * b)

RECURSIVE DigitsVal(_)
DigitsVal(s) ==
    IF s = <<>> THEN 0
    ELSE 10 * DigitsVal(SubSeq(s, 1, Len(s) - 1)) + DigitVal(s[Len(s)])

RECURSIVE Pow10(_)
Pow10(n) == IF n = 0 THEN 1 ELSE 10 * Pow10(n - 1)

IsDigits(s) == \A i \in 1..Len(s) : s[i] \in DigitSet

\* The fraction 0.f of a digit string f, in units of 1/SCALE, rounded to
\* nearest as float() rounds to its resolution.
FracVal(f) ==
    IF Len(f) <= 3
    THEN DigitsVal(f) * Pow10(3 - Len(f))
    ELSE DigitsVal(SubSeq(f, 1, 3)) + (IF DigitVal(f[4]) >= 5 THEN 1 ELSE 0)

\* float(text): surrounding whitespace is ignored; an optional sign, then
\* digits with at most one point and at least one digit.  Anything else
\* raises ValueError (ok = FALSE).  The alphabet of the model has none of
\* the other forms float() reads (exponents, "_", "inf", "nan").
Float(text) ==
    LET s == Strip(text)
        neg == s # <<>> /\ Head(s) = "-"
        body == IF neg THEN Tail(s) ELSE s
        parts == Split(body, ".")
        ip == parts[1]
        fp == IF Len(parts) = 2 THEN parts[2] ELSE <<>>
        wellFormed == /\ Len(parts) <= 2
                      /\ IsDigits(ip) /\ IsDigits(fp)
                      /\ Len(ip) + Len(fp) > 0
        mag == DigitsVal(ip) * SCALE + FracVal(fp)
    IN IF wellFormed
       THEN [ok |-> TRUE, val |-> PyFloat(IF neg THEN 0 - mag ELSE mag)]
       ELSE [ok |-> FALSE, val |-> PyFloat(0)]

RECURSIVE NatStr(_)
NatStr(n) ==
    IF n < 10 THEN <<Digits[n + 1]>>
    ELSE NatStr(n \div 10) \o <<Digits[(n % 10) + 1]>>

\* The digits of a fraction u/SCALE without trailing zeros, at least one.
FracStr(u) ==
    IF u % 100 = 0 THEN <<Digits[(u \div 100) + 1]>>
    ELSE IF u % 10 = 0
         THEN <<Digits[(u \div 100) + 1], Digits[((u \div 10) % 10) + 1]>>
         ELSE <<Digits[(u \div 100) + 1], Digits[((u \div 10) % 10) + 1],
                Digits[(u % 10) + 1]>>

\* f"{ranking}": str() of an int is its digits; of a float, the shortest
\* decimal that reads back as the same float, with at least one decimal.
Format(x) ==
    LET mag == IF x.v < 0 THEN 0 - x.v ELSE x.v
        sign == IF x.v < 0 THEN <<"-">> ELSE <<>>
    IN IF x.ty = "int"
       THEN sign \o NatStr(mag \div SCALE)
       ELSE sign \o NatStr(mag \div SCALE) \o <<".">> \o FracStr(mag % SCALE)

\* ------------------------------------------------------------------------
\* Dicts: a Python dict is the list of its [k, v] entries in insertion order.
\* ------------------------------------------------------------------------
Keys(d) == {d[i].k : i \in 1..Len(d)}
KeyList(d) == [i \in 1..Len(d) |-> d[i].k]
Has(d, k) == \E i \in 1..Len(d) : d[i].k = k
Get(d, k) == d[CHOOSE i \in 1..Len(d) : d[i].k = k].v

\* d[k] = v: an existing key keeps its position, a new key goes last.
Put(d, k, v) ==
    IF Has(d, k)
    THEN [i \in 1..Len(d) |-> IF d[i].k = k THEN [k |-> k, v |-> v] ELSE d[i]]
    ELSE Append(d, [k |-> k, v |-> v])

\* The lists that hold each element of the set S exactly once.
Perms(S) ==
    {p \in [1..Cardinality(S) -> S] : \A i, j \in 1..Cardinality(S) :
                                           p[i] = p[j] => i = j}

\* ------------------------------------------------------------------------
\* load_images
\* ------------------------------------------------------------------------
\* f.lower().endswith(('.png', '.jpg', '.jpeg'))
Lower(c) == IF c = ".JPG" THEN ".jpg" ELSE c
IsImage(f) == f # <<>> /\ Lower(f[Len(f)]) \in {".png", ".jpg", ".jpeg"}

\* sorted(...) of a set of distinct names.
RECURSIVE SortedNames(_)
SortedNames(S) ==
    IF S = {} THEN <<>>
    ELSE LET m == CHOOSE x \in S : \A y \in S \ {x} : StrLess(x, y)
         IN <<m>> \o SortedNames(S \ {m})

load_images(directory) == SortedNames({f \in directory : IsImage(f)})

\* ------------------------------------------------------------------------
\* get_rankings
\* ------------------------------------------------------------------------
\* {f: DEFAULT_ELO for f in filenames}: order is the iteration order of the
\* set filenames, which Python does not fix.
DefaultRankings(order) ==
    [i \in 1..Len(order) |-> [k |-> order[i], v |-> PyInt(DEFAULT_ELO)]]

\* LoadLine without `if name in filenames`: every parsed entry is stored.
LoadLine_NoMembership(st, line, filenames) ==
    LET fields == Split(Strip(line), ":")
    IN IF Len(fields) # 2
       THEN [r |-> st.r, err |-> "ValueError"]
       ELSE LET f == Float(fields[2])
            IN IF f.ok
               THEN [r |-> Put(st.r, fields[1], f.val), err |-> NoErr]
               ELSE [r |-> st.r, err |-> "ValueError"]

\* One iteration of `for line in file`, on the state [r: dict, err: text].
LoadLine(st, line, filenames) ==
    LET fields == Split(Strip(line), ":")
    IN IF Len(fields) # 2
       THEN [r |-> st.r, err |-> "ValueError"]      \* unpacking fails
       ELSE IF fields[1] \notin filenames
            THEN st
            ELSE LET f == Float(fields[2])
                 IN IF f.ok
                    THEN [r |-> Put(st.r, fields[1], f.val), err |-> NoErr]
                    ELSE [r |-> st.r, err |-> "ValueError"]

\* The loop over the lines; an exception ends it.
RECURSIVE LoadLines(_, _, _)
LoadLines(st, lines, filenames) ==
    IF lines = <<>> \/ st.err # NoErr THEN st
    ELSE LoadLines(LoadLine(st, Head(lines), filenames), Tail(lines), filenames)

\* get_rankings that keeps the file's scores only when the file names
\* exactly the images of the directory, and resets every score otherwise.
get_rankings_ResetOnMismatch(directory, file, order) ==
    LET filenames == {f \in directory : IsImage(f)}
        st0 == [r |-> DefaultRankings(order), err |-> NoErr]
        st == LoadLines(st0, file.lines, filenames)
        named == {Split(Strip(file.lines[i]), ":")[1] : i \in 1..Len(file.lines)}
    IN IF ~file.exists THEN st0
       ELSE IF st.err = NoErr /\ named # filenames THEN st0
       ELSE st

\* get_rankings(directory) with the dict built in the given key order.
\* Result: [r: the dict returned, err: NoErr or the exception raised].
get_rankings(directory, file, order) ==
    LET filenames == {f \in directory : IsImage(f)}
        st0 == [r |-> DefaultRankings(order), err |-> NoErr]
    IN IF file.exists THEN LoadLines(st0, file.lines, filenames) ELSE st0

\* ------------------------------------------------------------------------
\* random_pair
\* ------------------------------------------------------------------------
\* random_pair drawing with replacement: the two entries may be the same.
random_pair_WithReplacement(image_list) ==
    IF Len(image_list) >= 2
    THEN {<<image_list[i], image_list[j]>> :
              i \in 1..Len(image_list), j \in 1..Len(image_list)}
    ELSE {None}

\* The values random.sample(image_list, 2) can return: two entries at
\* distinct positions; None for a list of fewer than 2.
random_pair(image_list) ==
    IF Len(image_list) >= 2
    THEN {<<image_list[i], image_list[j]>> :
              i \in 1..Len(image_list), j \in 1..Len(image_list)} \
         {<<image_list[i], image_list[i]>> : i \in 1..Len(image_list)}
    ELSE {None}

\* ------------------------------------------------------------------------
\* elo_update
\* ------------------------------------------------------------------------
\* 10 ** (i / 400) for i = 1, 2, 4, ..., 256, in units of 1/SCALE.
POW10_400 == <<1006, 1012, 1023, 1047, 1096, 1202, 1445, 2089, 4365>>

\* 10 ** (f / 400) for 0 <= f < 400, in units of 1/SCALE: the product of
\* the table entries of the binary digits of f, rounded at each step.
RECURSIVE PowFrac(_, _, _)
PowFrac(f, i, acc) ==
    IF f = 0 THEN acc
    ELSE PowFrac(f \div 2, i + 1,
                 IF f % 2 = 1 THEN RoundDiv(acc * POW10_400[i], SCALE) ELSE acc)

\* InvOnePlusPow without the "1 +" of the denominator: 1 / 10 ** (n / 400).
InvOnePlusPow_NoOne(n) ==
    LET q == n \div 400
        m == PowFrac(n % 400, 1, SCALE)
    IN IF q > 4 THEN 0
       ELSE RoundDiv(SCALE * SCALE, m * Pow10(q))

\* 1 / (1 + 10 ** (n / 400)) for a whole n >= 0, in units of 1/SCALE.
\* From 10 ** 5 on the quotient is below half a unit and rounds to 0.
InvOnePlusPow(n) ==
    LET q == n \div 400
        m == PowFrac(n % 400, 1, SCALE)
    IN IF q > 4 THEN 0
       ELSE RoundDiv(SCALE * SCALE, SCALE + m * Pow10(q))

\* The largest difference rankings[loser] - rankings[winner], in units of
\* 1/SCALE, for which 10 ** (difference / 400) is still a binary64
\* (at most 1.797e308); beyond it Python raises OverflowError.
MAX_POW_GAP == 123301886

\* exp_win = 1 / (1 + 10 ** (d / 400)) in units of 1/SCALE, d being
\* rankings[loser] - rankings[winner] in units of 1/SCALE.  The exponent is
\* kept to 1/400; 1 / (1 + 1/p) is computed as 1 - 1 / (1 + p).
exp_win(d) ==
    IF d >= 0
    THEN InvOnePlusPow(RoundDiv(d, SCALE))
    ELSE SCALE - InvOnePlusPow(RoundDiv(0 - d, SCALE))

\* elo_update with the two updates exchanged: the winner pays k * exp_win
\* and the loser receives k * (1 - exp_win).
elo_update_Exchanged(rankings, winner, loser) ==
    IF ~Has(rankings, loser) \/ ~Has(rankings, winner)
    THEN [r |-> rankings, err |-> "KeyError"]
    ELSE LET d == Get(rankings, loser).v - Get(rankings, winner).v
         IN IF d > MAX_POW_GAP
            THEN [r |-> rankings, err |-> "OverflowError"]
            ELSE LET e == exp_win(d)
                     r1 == Put(rankings, winner,
                               PyFloat(Get(rankings, winner).v - K_FACTOR * e))
                     r2 == Put(r1, loser,
                               PyFloat(Get(r1, loser).v
                                       + K_FACTOR * (SCALE - e)))
                 IN [r |-> r2, err |-> NoErr]

\* elo_update charging the winner's opponent and every other item of the
\* dict with k * exp_win.
elo_update_EveryoneLoses(rankings, winner, loser) ==
    IF ~Has(rankings, loser) \/ ~Has(rankings, winner)
    THEN [r |-> rankings, err |-> "KeyError"]
    ELSE LET d == Get(rankings, loser).v - Get(rankings, winner).v
         IN IF d > MAX_POW_GAP
            THEN [r |-> rankings, err |-> "OverflowError"]
            ELSE LET e == exp_win(d)
                     r1 == Put(rankings, winner,
                               PyFloat(Get(rankings, winner).v
                                       + K_FACTOR * (SCALE - e)))
                     r2 == [i \in 1..Len(r1) |->
                               IF r1[i].k = winner THEN r1[i]
                               ELSE [k |-> r1[i].k,
                                     v |-> PyFloat(r1[i].v.v - K_FACTOR * e)]]
                 IN [r |-> r2, err |-> NoErr]

\* elo_update as a zero-sum exchange: the loser loses what the winner gains.
elo_update_ZeroSum(rankings, winner, loser) ==
    IF ~Has(rankings, loser) \/ ~Has(rankings, winner)
    THEN [r |-> rankings, err |-> "KeyError"]
    ELSE LET d == Get(rankings, loser).v - Get(rankings, winner).v
         IN IF d > MAX_POW_GAP
            THEN [r |-> rankings, err |-> "OverflowError"]
            ELSE LET e == exp_win(d)
                     r1 == Put(rankings, winner,
                               PyFloat(Get(rankings, winner).v
                                       + K_FACTOR * (SCALE - e)))
                     r2 == Put(r1, loser,
                               PyFloat(Get(r1, loser).v
                                       - K_FACTOR * (SCALE - e)))
                 IN [r |-> r2, err |-> NoErr]

\* elo_update(rankings, winner, loser) with k = K_FACTOR.
\* Result: [r: the dict afterwards, err: NoErr or the exception raised].
elo_update(rankings, winner, loser) ==
    IF ~Has(rankings, loser) \/ ~Has(rankings, winner)
    THEN [r |-> rankings, err |-> "KeyError"]
    ELSE LET d == Get(rankings, loser).v - Get(rankings, winner).v
         IN IF d > MAX_POW_GAP
            THEN [r |-> rankings, err |-> "OverflowError"]
            ELSE LET e == exp_win(d)
                     r1 == Put(rankings, winner,
                               PyFloat(Get(rankings, winner).v
                                       + K_FACTOR * (SCALE - e)))
                     r2 == Put(r1, loser,
                               PyFloat(Get(r1, loser).v - K_FACTOR * e))
                 IN [r |-> r2, err |-> NoErr]

\* ------------------------------------------------------------------------
\* save_rankings, show_rankings
\* ------------------------------------------------------------------------
\* sorted(..., key=lambda x: x[1], reverse=True) is stable: x goes behind
\* every entry whose score is not below its own.
InsertByScore(sorted, x) ==
    LET n == Cardinality({i \in 1..Len(sorted) : sorted[i].v.v >= x.v.v})
    IN SubSeq(sorted, 1, n) \o <<x>> \o SubSeq(sorted, n + 1, Len(sorted))

RECURSIVE SortAcc(_, _)
SortAcc(items, acc) ==
    IF items = <<>> THEN acc
    ELSE SortAcc(Tail(items), InsertByScore(acc, Head(items)))

SortedByScore(rankings) == SortAcc(rankings, <<>>)

\* f"{filename}:{ranking}\n", without the newline.
Line(item) == item.k \o <<":">> \o Format(item.v)

\* The lines save_rankings writes, in order.
SaveLines(rankings) ==
    LET s == SortedByScore(rankings)
    IN [i \in 1..Len(s) |-> Line(s[i])]

\* top_images of show_rankings: sorted(...)[:3].
TopImages(rankings) ==
    LET s == SortedByScore(rankings)
    IN SubSeq(s, 1, IF Len(s) < 3 THEN Len(s) ELSE 3)

\* ------------------------------------------------------------------------
\* Inputs
\* ------------------------------------------------------------------------
\* Entries IMAGE_DIR may hold: "a.png", "b.png", "a:b.png", "b.JPG", "c.txt".
NameA == <<"a", ".png">>
NameB == <<"b", ".png">>
NameColon == <<"a", ":", "b", ".png">>
NameUpper == <<"b", ".JPG">>
NameText == <<"c", ".txt">>
\* "z.png": an image that is not in IMAGE_DIR (any more).
NameGone == <<"z", ".png">>

DirUniverse == {NameA, NameB, NameColon, NameUpper, NameText}

Images(directory) == {f \in directory : IsImage(f)}

\* Lines an initial RANKINGS_FILE may hold.
LineUniverse ==
    { NameA \o <<":", "9", "8", "4", ".", "5">>,        \* a.png:984.5
      NameB \o <<":", "9", "0", "0", "0", " ">>,        \* b.png:9000 + blank
      NameGone \o <<":", "1", "2", "0", "0">>,          \* z.png:1200
      NameA \o <<":", "x">>,                            \* a.png:x
      NameGone \o <<":", "x">>,                         \* z.png:x
      NameB,                                            \* b.png
      NameColon \o <<":", "1", "0", "0", "0">>,         \* a:b.png:1000
      <<>> }                                            \* an empty line

Disks ==
    {NoFile} \cup
    {File(ls) : ls \in UNION {[1..n -> LineUniverse] : n \in 0..MaxLines}}

\* Scores a dict may hold: the int default, and floats read from a file.
ScoreUniverse ==
    { PyInt(DEFAULT_ELO), PyFloat(984500), PyFloat(2200000),
      PyFloat(9000000), PyFloat(130000000) }

\* call records the last call made and, for a session, its history: the key
\* of the last key_press_event, the pair that was shown when it arrived, the
\* table as get_rankings returned it, the decisions applied since (log), the
\* number of pairs proposed (np) and how the window was closed (ended).
NoCall ==
    [op |-> "-", w |-> <<>>, l |-> <<>>, err |-> NoErr, old |-> <<>>,
     prev |-> NoFile, after |-> "-", n |-> 0,
     key |-> "-", shown |-> <<>>, loaded |-> <<>>, log |-> <<>>,
     np |-> 0, ended |-> "-"]

\* ------------------------------------------------------------------------
\* get_rankings called on any directory and any score file
\* ------------------------------------------------------------------------
LoadInit ==
    /\ dir \in SUBSET DirUniverse
    /\ disk \in Disks
    /\ image_filenames = None
    /\ elo_rankings = <<>>
    /\ current_pair = None
    /\ top_images = <<>>
    /\ pc = "start"
    /\ wbuf = <<>>
    /\ todo = <<>>
    /\ call = NoCall

\* elo_rankings = get_rankings(IMAGE_DIR); an exception leaves the global
\* unassigned.
LoadRankings ==
    /\ pc = "start"
    /\ \E order \in Perms(Images(dir)) :
           LET res == get_rankings(dir, disk, order)
           IN /\ elo_rankings' = IF res.err = NoErr THEN res.r ELSE elo_rankings
              /\ pc' = IF res.err = NoErr THEN "loaded" ELSE "raised"
              /\ call' = [call EXCEPT !.op = "get_rankings", !.err = res.err]
    /\ UNCHANGED <<dir, disk, image_filenames, current_pair, top_images,
                   wbuf, todo>>

LoadNext == LoadRankings

LoadSpec == LoadInit /\ [][LoadNext]_vars

\* ------------------------------------------------------------------------
\* Claims about get_rankings (LoadSpec)
\* ------------------------------------------------------------------------
Catalog == Images(dir)

Fields(line) == Split(Strip(line), ":")
\* A record "Item:Score" with a decimal score.
WellFormed(line) == Len(Fields(line)) = 2 /\ Float(Fields(line)[2]).ok
\* The positions of the file's well-formed records for item k.
EntriesOf(k) ==
    {i \in 1..Len(disk.lines) :
         WellFormed(disk.lines[i]) /\ Fields(disk.lines[i])[1] = k}
LastEntry(k) == CHOOSE i \in EntriesOf(k) : \A j \in EntriesOf(k) : j <= i
\* The score the file gives item k, the default when it gives none.
FileScore(k) ==
    IF EntriesOf(k) # {}
    THEN Float(Fields(disk.lines[LastEntry(k)])[2]).val
    ELSE PyInt(DEFAULT_ELO)

\* C1: whenever get_rankings returns, the key set of the table is exactly
\* the catalog, whatever the score file holds (entries for items that are
\* not in the catalog, no entry for items that are); and it does return
\* unless the file holds a malformed line.
C1_KeySetIsCatalog ==
    /\ pc = "loaded" =>
           /\ Keys(elo_rankings) = Catalog
           /\ Len(elo_rankings) = Cardinality(Catalog)
    /\ pc = "raised" =>
           \E i \in 1..Len(disk.lines) : ~WellFormed(disk.lines[i])

\* A load that returned, of a file with an entry for an item outside the
\* catalog and without an entry for an item of the catalog.
C1_Witness ==
    /\ pc = "loaded"
    /\ disk.exists
    /\ \E i \in 1..Len(disk.lines) :
           WellFormed(disk.lines[i]) /\ Fields(disk.lines[i])[1] \notin Catalog
    /\ \E k \in Catalog : EntriesOf(k) = {}
    /\ \E k \in Catalog : EntriesOf(k) # {}

\* C3: a malformed line (wrong number of fields, non-numeric score) is
\* skipped: the load succeeds, and every item of the catalog has the score
\* of its last well-formed line, the default when it has none.
C3_MalformedLineSkipped ==
    pc # "start" =>
        /\ pc = "loaded"
        /\ \A k \in Catalog : Get(elo_rankings, k) = FileScore(k)

\* C6: after a load every item of the catalog has the score of its entry in
\* the file, and the default 1000 when it has none; a missing file is not an
\* error; and a load with one item more or less in the directory gives the
\* items common to both catalogs the same scores.
C6_ScoresFromFile ==
    /\ pc = "loaded" =>
           \A k \in Catalog : Get(elo_rankings, k) = FileScore(k)
    /\ ~disk.exists => pc # "raised"
    /\ pc = "loaded" =>
           \A n \in DirUniverse :
               LET dir2 == IF n \in dir THEN dir \ {n} ELSE dir \cup {n}
                   other == get_rankings(dir2, disk, load_images(dir2))
               IN other.err = NoErr =>
                      \A k \in Catalog \cap Images(dir2) :
                          Get(other.r, k) = Get(elo_rankings, k)

\* A load that kept the file's score of one item, gave another item the
\* default, and dropped an entry of an item that is gone.
C6_Witness ==
    /\ pc = "loaded"
    /\ \E k \in Catalog :
           EntriesOf(k) # {} /\ Get(elo_rankings, k) # PyInt(DEFAULT_ELO)
    /\ \E k \in Catalog :
           EntriesOf(k) = {} /\ Get(elo_rankings, k) = PyInt(DEFAULT_ELO)
    /\ EntriesOf(NameGone) # {}

\* ------------------------------------------------------------------------
\* elo_update called on any table with any winner and loser
\* ------------------------------------------------------------------------
Table(ks, sc) == [i \in 1..Len(ks) |-> [k |-> ks[i], v |-> sc[i]]]

EloTables ==
    {Table(<<NameA, NameB>>, sc) : sc \in [1..2 -> ScoreUniverse]} \cup
    {Table(<<NameA, NameB, NameColon>>, <<sc[1], sc[2], third>>) :
         sc \in [1..2 -> ScoreUniverse],
         third \in {PyInt(DEFAULT_ELO), PyFloat(984500)}}

EloInit ==
    /\ elo_rankings \in EloTables
    /\ dir = Keys(elo_rankings)
    /\ disk = NoFile
    /\ image_filenames = None
    /\ current_pair = None
    /\ top_images = <<>>
    /\ pc = "loaded"
    /\ wbuf = <<>>
    /\ todo = <<>>
    /\ call = NoCall

\* elo_update(elo_rankings, winner, loser): the dict is updated in place;
\* call.old keeps the dict as it was before the call.
EloCall ==
    /\ pc = "loaded"
    /\ call.n < MaxUpdates
    /\ \E winner, loser \in Keys(elo_rankings) \cup {NameGone} :
           LET res == elo_update(elo_rankings, winner, loser)
           IN /\ elo_rankings' = res.r
              /\ call' = [call EXCEPT !.op = "elo_update", !.w = winner,
                                      !.l = loser, !.err = res.err,
                                      !.old = elo_rankings, !.n = @ + 1]
    /\ UNCHANGED <<dir, disk, image_filenames, current_pair, top_images,
                   pc, wbuf, todo>>

EloNext == EloCall

EloSpec == EloInit /\ [][EloNext]_vars

\* ------------------------------------------------------------------------
\* Claims about elo_update (EloSpec)
\* ------------------------------------------------------------------------
Abs(x) == IF x < 0 THEN 0 - x ELSE x

\* The last call was elo_update on two distinct keys of the dict.
ValidDecision ==
    /\ call.op = "elo_update"
    /\ call.w # call.l
    /\ Has(call.old, call.w)
    /\ Has(call.old, call.l)

\* The last call was elo_update on one item twice, or on a missing key.
InvalidDecision ==
    /\ call.op = "elo_update"
    /\ \/ call.w = call.l
       \/ ~Has(call.old, call.w)
       \/ ~Has(call.old, call.l)

\* C2: elo_update with winner = loser, or with a winner or loser that is
\* not a key of the table, signals an error and leaves every score as it
\* was.
C2_InvalidDecisionRejected ==
    InvalidDecision =>
        /\ call.err # NoErr
        /\ Keys(elo_rankings) = Keys(call.old)
        /\ \A k \in Keys(call.old) :
               Get(elo_rankings, k).v = Get(call.old, k).v

StrictGap == 1200 * SCALE
MaxMagnitude == 1000 * 1000 * SCALE

PairInit ==
    /\ dir \in SUBSET DirUniverse
    /\ disk = NoFile
    /\ image_filenames = load_images(dir)
    /\ elo_rankings = DefaultRankings(image_filenames)
    /\ current_pair = None
    /\ top_images = <<>>
    /\ pc = "loaded"
    /\ wbuf = <<>>
    /\ todo = <<>>
    /\ call = NoCall

\* next_pair(image_filenames, elo_rankings): current_pair becomes the pair
\* drawn, or None when random_pair returns None.
next_pair ==
    /\ pc = "loaded"
    /\ \E pair \in random_pair(image_filenames) :
           current_pair' = pair
    /\ call' = [call EXCEPT !.op = "next_pair", !.err = NoErr]
    /\ UNCHANGED <<dir, disk, image_filenames, elo_rankings, top_images,
                   pc, wbuf, todo>>

PairNext == next_pair

PairSpec == PairInit /\ [][PairNext]_vars

\* C5: with at least 2 images next_pair yields two distinct members of the
\* catalog; with 0 or 1 it yields None; it raises no error.
C5_PairValid ==
    call.op = "next_pair" =>
        /\ call.err = NoErr
        /\ IF Len(image_filenames) >= 2
           THEN /\ Len(current_pair) = 2
                /\ current_pair[1] # current_pair[2]
                /\ current_pair[1] \in Catalog
                /\ current_pair[2] \in Catalog
           ELSE current_pair = None

\* A pair drawn from a catalog of three images or more.
C5_Witness ==
    /\ call.op = "next_pair"
    /\ Len(image_filenames) >= 3
    /\ Len(current_pair) = 2

\* ------------------------------------------------------------------------
\* save_rankings and show_rankings on any table; crash and restart
\* ------------------------------------------------------------------------
SaveScores ==
    { PyInt(DEFAULT_ELO), PyFloat(984500), PyFloat(1015264), PyFloat(0 - 15264) }

SaveInit ==
    /\ dir \in SUBSET {NameA, NameB, NameColon}
    /\ image_filenames = load_images(dir)
    /\ \E order \in Perms(Images(dir)) :
           \E sc \in [1..Len(order) -> SaveScores] :
               elo_rankings = Table(order, sc)
    \* the snapshot of an earlier session, if there was one
    /\ disk \in {NoFile, File(SaveLines(DefaultRankings(image_filenames)))}
    /\ current_pair = None
    /\ top_images = <<>>
    /\ pc = "loaded"
    /\ wbuf = <<>>
    /\ todo = <<>>
    /\ call = NoCall

\* show_rankings(elo_rankings).  For a single entry plt.subplots(1, 1)
\* returns one Axes instead of an array, and axs_rank[i] raises TypeError.
ShowRankings ==
    /\ pc = "loaded"
    /\ top_images' = TopImages(elo_rankings)
    /\ call' = [call EXCEPT !.op = "show_rankings",
                            !.err = IF Len(elo_rankings) = 1
                                    THEN "TypeError" ELSE NoErr]
    /\ UNCHANGED <<dir, disk, image_filenames, elo_rankings, current_pair,
                   pc, wbuf, todo>>

\* save_rankings, line 90: open(RANKINGS_FILE, "w") creates the file or
\* truncates it; line 91: the entries are sorted.  call.prev keeps the
\* file as it was, call.old the dict being saved.
SaveOpen ==
    /\ pc = "loaded"
    /\ call.n < MaxSaves
    /\ disk' = File(<<>>)
    /\ todo' = SaveLines(elo_rankings)
    /\ wbuf' = <<>>
    /\ pc' = "saving"
    /\ call' = [call EXCEPT !.op = "save_rankings", !.err = NoErr,
                            !.old = elo_rankings, !.prev = disk,
                            !.n = @ + 1]
    /\ UNCHANGED <<dir, image_filenames, elo_rankings, current_pair,
                   top_images>>

\* line 92: file.write of the next line, into the buffer of the file object.
SaveWrite ==
    /\ pc = "saving"
    /\ todo # <<>>
    /\ wbuf' = Append(wbuf, Head(todo))
    /\ todo' = Tail(todo)
    /\ UNCHANGED <<dir, disk, image_filenames, elo_rankings, current_pair,
                   top_images, pc, call>>

\* The file object writes its buffer out when the buffer is full.
SaveFlush ==
    /\ pc = "saving"
    /\ wbuf # <<>>
    /\ disk' = File(disk.lines \o wbuf)
    /\ wbuf' = <<>>
    /\ UNCHANGED <<dir, image_filenames, elo_rankings, current_pair,
                   top_images, pc, todo, call>>

\* The end of the with block closes the file, writing the buffer out.
SaveClose ==
    /\ pc = "saving"
    /\ todo = <<>>
    /\ disk' = File(disk.lines \o wbuf)
    /\ wbuf' = <<>>
    /\ pc' = "saved"
    /\ UNCHANGED <<dir, image_filenames, elo_rankings, current_pair,
                   top_images, todo, call>>

\* The process dies inside save_rankings: what was not written out is lost.
Crash ==
    /\ pc = "saving"
    /\ pc' = "crashed"
    /\ wbuf' = <<>>
    /\ todo' = <<>>
    /\ elo_rankings' = <<>>
    /\ UNCHANGED <<dir, disk, image_filenames, current_pair, top_images, call>>

\* The program is started again on the same directory and score file.
Restart ==
    /\ pc \in {"saved", "crashed"}
    /\ pc' = "start"
    /\ elo_rankings' = <<>>
    /\ call' = [call EXCEPT !.after = pc]
    /\ UNCHANGED <<dir, disk, image_filenames, current_pair, top_images,
                   wbuf, todo>>

SaveNext ==
    \/ ShowRankings
    \/ SaveOpen
    \/ SaveWrite
    \/ SaveFlush
    \/ SaveClose
    \/ Crash
    \/ Restart
    \/ LoadRankings

SaveSpec == SaveInit /\ [][SaveNext]_vars

\* ------------------------------------------------------------------------
\* Claims about save_rankings and show_rankings (SaveSpec)
\* ------------------------------------------------------------------------
\* C4: save_rankings replaces the file atomically: after a crash inside it
\* the file is the complete previous snapshot or the complete new one.
C4_AtomicSave ==
    (pc = "crashed" \/ call.after = "crashed") =>
        \/ disk = call.prev
        \/ disk = File(SaveLines(call.old))

\* Entry x ranks before entry y: higher score, or equal score and lower key.
RanksBefore(x, y) ==
    \/ x.v.v > y.v.v
    \/ x.v.v = y.v.v /\ StrLess(x.k, y.k)

\* The entries of a dict by score descending, ties by key ascending.
RECURSIVE Ranked(_)
Ranked(S) ==
    IF S = {} THEN <<>>
    ELSE LET m == CHOOSE x \in S : \A y \in S \ {x} : RanksBefore(x, y)
         IN <<m>> \o Ranked(S \ {m})

RankedEntries(rankings) == Ranked({rankings[i] : i \in 1..Len(rankings)})

\* C9: save_rankings writes the entries by score descending, entries with
\* equal scores by key ascending, and show_rankings shows the first three
\* entries of that order.
C9_OrderWithTieBreak ==
    /\ pc = "saved" =>
           disk.lines = [i \in 1..Len(call.old) |->
                             Line(RankedEntries(call.old)[i])]
    /\ call.op = "show_rankings" =>
           top_images = SubSeq(RankedEntries(elo_rankings), 1,
                               IF Len(elo_rankings) < 3
                               THEN Len(elo_rankings) ELSE 3)

\* C10: saving a table and loading it again with its own keys as catalog
\* returns a table with the same keys and the same score for every key.
C10_RoundTrip ==
    (call.after = "saved" /\ pc \in {"loaded", "raised"}) =>
        /\ pc = "loaded"
        /\ Keys(elo_rankings) = Keys(call.old)
        /\ \A k \in Keys(call.old) :
               Get(elo_rankings, k).v = Get(call.old, k).v

\* ------------------------------------------------------------------------
\* A session: module initialization, then the key_press_event loop
\* ------------------------------------------------------------------------
\* save_rankings as a whole: the file holds the sorted lines of the dict.
save_rankings(rankings) == File(SaveLines(rankings))

\* show_rankings rounding every score of the dict to whole points for the
\* display.
show_rankings_RoundInPlace(rankings) ==
    [r |-> [i \in 1..Len(rankings) |->
               [k |-> rankings[i].k,
                v |-> PyFloat(RoundDiv(rankings[i].v.v, SCALE) * SCALE)]],
     top |-> TopImages(rankings),
     err |-> IF Len(rankings) = 1 THEN "TypeError" ELSE NoErr]

\* show_rankings: the dict is read, the first three entries are displayed.
show_rankings(rankings) ==
    [r |-> rankings, top |-> TopImages(rankings),
     err |-> IF Len(rankings) = 1 THEN "TypeError" ELSE NoErr]

\* update_ranking without its call of next_pair: the pair shown stays.
update_ranking_NoNextPair(winner, loser, rankings, image_list) ==
    LET res == elo_update(rankings, winner, loser)
    IN [r |-> res.r, err |-> res.err, proposed |-> FALSE, pairs |-> {}]

\* update_ranking: elo_update, then next_pair.  An exception in elo_update
\* leaves the handler before next_pair is called.  pairs is the set of values
\* next_pair may give current_pair.
update_ranking(winner, loser, rankings, image_list) ==
    LET res == elo_update(rankings, winner, loser)
    IN IF res.err # NoErr
       THEN [r |-> res.r, err |-> res.err, proposed |-> FALSE, pairs |-> {}]
       ELSE [r |-> res.r, err |-> NoErr, proposed |-> TRUE,
             pairs |-> random_pair(image_list)]

\* on_key with the two keys exchanged.
WinnerLoser_Exchanged(key, pair) ==
    IF key = "d" THEN <<pair[1], pair[2]>> ELSE <<pair[2], pair[1]>>

\* on_key, lines 137-141: "a" is a win of the left image, current_pair[0],
\* "d" a win of the right one, current_pair[1].
WinnerLoser(key, pair) ==
    IF key = "a" THEN <<pair[1], pair[2]>> ELSE <<pair[2], pair[1]>>

\* The check of line 153 left out.
EnoughImages_Always(image_list) == TRUE

\* plt.close(fig) having no effect: the window stays and the loop goes on.
plt_close_Ignored(state) == state

\* line 147, plt.close(fig): the window is destroyed, no key_press_event
\* reaches on_key any more, and plt.show() returns.
plt_close(state) == "closed"

\* line 153: the session needs two images.
EnoughImages(image_list) == Len(image_list) >= 2

\* Keys a key_press_event may carry; "x" stands for every key on_key does
\* not name.
KeyUniverse == {"a", "d", "r", "e", "x"}

\* Directories and score files a session is started on.
SessionNames == {NameA, NameB, NameUpper, NameText}

SessionDisks ==
    { NoFile,
      File(<<NameB \o <<":", "9", "0", "0", "0", " ">>,
             NameGone \o <<":", "1", "2", "0", "0">>>>),
      File(<<NameA \o <<":", "x">>>>) }

Init ==
    /\ dir \in {d \in SUBSET SessionNames : Cardinality(d) <= 3}
    /\ disk \in SessionDisks
    /\ image_filenames = None
    /\ elo_rankings = <<>>
    /\ current_pair = None
    /\ top_images = <<>>
    /\ pc = "start"
    /\ wbuf = <<>>
    /\ todo = <<>>
    /\ call = NoCall

\* Lines 150-161.  get_rankings may raise, which ends the program.  With
\* fewer than two images the message is printed and the program ends: no
\* figure is created, on_key is not connected, current_pair is not assigned.
\* Otherwise next_pair shows the first pair and plt.show() runs the loop.
Startup ==
    /\ pc = "start"
    /\ image_filenames' = load_images(dir)
    /\ \E order \in Perms(Images(dir)) :
           LET res == get_rankings(dir, disk, order)
           IN IF res.err # NoErr
              THEN /\ pc' = "raised"
                   /\ call' = [call EXCEPT !.op = "startup", !.err = res.err]
                   /\ UNCHANGED <<elo_rankings, current_pair>>
              ELSE /\ elo_rankings' = res.r
                   /\ IF EnoughImages(image_filenames')
                      THEN /\ \E pair \in random_pair(image_filenames') :
                                  current_pair' = pair
                           /\ pc' = "running"
                           /\ call' = [call EXCEPT !.op = "startup",
                                                   !.err = NoErr,
                                                   !.loaded = res.r,
                                                   !.np = 1]
                      ELSE /\ pc' = "not_enough"
                           /\ call' = [call EXCEPT !.op = "startup",
                                                   !.err = NoErr,
                                                   !.loaded = res.r]
                           /\ UNCHANGED current_pair
    /\ UNCHANGED <<dir, disk, top_images, wbuf, todo>>

\* on_key(event), lines 132-147, as one step of the event loop.  An
\* exception raised in the handler is reported by the event loop, which goes
\* on; the assignments made before it stay.
on_key(key) ==
    /\ pc = "running"
    /\ key \in {"a", "d"} => call.n < MaxUpdates
    /\ IF current_pair = None
       THEN /\ call' = [call EXCEPT !.op = "return", !.key = key,
                                    !.err = NoErr, !.shown = None]
            /\ UNCHANGED <<elo_rankings, current_pair, top_images, disk, pc>>
       ELSE IF key \in {"a", "d"}
       THEN LET wl == WinnerLoser(key, current_pair)
                res == update_ranking(wl[1], wl[2], elo_rankings,
                                      image_filenames)
            IN /\ elo_rankings' = res.r
               /\ IF res.proposed
                  THEN \E pair \in res.pairs : current_pair' = pair
                  ELSE UNCHANGED current_pair
               /\ call' = [call EXCEPT
                              !.op = "decision", !.key = key,
                              !.shown = current_pair,
                              !.w = wl[1], !.l = wl[2], !.err = res.err,
                              !.old = elo_rankings, !.n = @ + 1,
                              !.log = IF res.err = NoErr
                                      THEN Append(@, wl) ELSE @,
                              !.np = IF res.proposed THEN @ + 1 ELSE @]
               /\ UNCHANGED <<top_images, disk, pc>>
       ELSE IF key = "r"
       THEN LET res == show_rankings(elo_rankings)
            IN /\ elo_rankings' = res.r
               /\ top_images' = res.top
               /\ call' = [call EXCEPT !.op = "show_rankings", !.key = key,
                                       !.shown = current_pair,
                                       !.err = res.err,
                                       !.old = elo_rankings]
               /\ UNCHANGED <<current_pair, disk, pc>>
       ELSE IF key = "e"
       THEN /\ disk' = save_rankings(elo_rankings)
            /\ pc' = plt_close(pc)
            /\ call' = [call EXCEPT !.op = "end", !.key = key,
                                    !.shown = current_pair, !.err = NoErr,
                                    !.old = elo_rankings, !.prev = disk,
                                    !.ended = "e"]
            /\ UNCHANGED <<elo_rankings, current_pair, top_images>>
       ELSE /\ call' = [call EXCEPT !.op = "ignored", !.key = key,
                                    !.shown = current_pair, !.err = NoErr,
                                    !.old = elo_rankings]
            /\ UNCHANGED <<elo_rankings, current_pair, top_images, disk, pc>>
    /\ UNCHANGED <<dir, image_filenames, wbuf, todo>>

KeyPress == \E key \in KeyUniverse : on_key(key)

\* line 161: plt.show() returns when the window is closed, by "e" or by the
\* user (the close button of the window, or the "q" key binding of
\* matplotlib); the program then ends.  Nothing is saved here.
WindowClose ==
    /\ pc = "running"
    /\ pc' = "closed"
    /\ call' = [call EXCEPT !.op = "close", !.key = "-", !.err = NoErr,
                            !.old = elo_rankings, !.prev = disk,
                            !.ended = "window"]
    /\ UNCHANGED <<dir, disk, image_filenames, elo_rankings, current_pair,
                   top_images, wbuf, todo>>

Next ==
    \/ Startup
    \/ KeyPress
    \/ WindowClose

Spec == Init /\ [][Next]_vars

\* ------------------------------------------------------------------------
\* Claims about a session (Spec)
\* ------------------------------------------------------------------------
\* The table after the decisions of log, in order, applied to rankings.
RECURSIVE Replay(_, _)
Replay(rankings, log) ==
    IF log = <<>> THEN rankings
    ELSE Replay(elo_update(rankings, Head(log)[1], Head(log)[2]).r, Tail(log))

\* C11: when a session in which decisions were applied has ended, the score
\* file is the snapshot of the table with every decision of the session
\* applied to it.
C11_SavedAtExit ==
    (pc = "closed" /\ call.log # <<>>) =>
        disk = File(SaveLines(Replay(call.loaded, call.log)))

\* C12: a decision the session applies updates the winner's and the loser's
\* entry, both from the same expected score, in one step; every other entry
\* and the keys of the table, in their order, are as before.  A decision
\* that raises updates nothing.
C12_ExactlyTwoUpdated ==
    call.op = "decision" =>
        IF call.err = NoErr
        THEN LET e == exp_win(Get(call.old, call.l).v - Get(call.old, call.w).v)
             IN /\ KeyList(elo_rankings) = KeyList(call.old)
                /\ \A k \in Keys(call.old) \ {call.w, call.l} :
                       Get(elo_rankings, k) = Get(call.old, k)
                /\ Get(elo_rankings, call.w)
                       = PyFloat(Get(call.old, call.w).v
                                 + K_FACTOR * (SCALE - e))
                /\ Get(elo_rankings, call.l)
                       = PyFloat(Get(call.old, call.l).v - K_FACTOR * e)
        ELSE elo_rankings = call.old

\* A decision applied to a table of three items: two scores have changed,
\* the third has not.
C12_Witness ==
    /\ call.op = "decision"
    /\ call.err = NoErr
    /\ Len(call.old) = 3
    /\ Get(elo_rankings, call.w).v # Get(call.old, call.w).v
    /\ Get(elo_rankings, call.l).v # Get(call.old, call.l).v
    /\ \E k \in Keys(call.old) \ {call.w, call.l} :
           Get(elo_rankings, k) = Get(call.old, k)

\* C13: a decision is applied only while a pair is shown; "a" makes the left
\* item of that pair the winner and the right one the loser, "d" the
\* reverse; and one pair is proposed at the start and one after every
\* applied decision, before the next key event is handled.
C13_Alternation ==
    /\ call.op = "decision" =>
           /\ Len(call.shown) = 2
           /\ call.key = "a" =>
                  elo_rankings
                      = elo_update(call.old, call.shown[1], call.shown[2]).r
           /\ call.key = "d" =>
                  elo_rankings
                      = elo_update(call.old, call.shown[2], call.shown[1]).r
           /\ call.key \in {"a", "d"}
    /\ pc \in {"running", "closed"} =>
           /\ call.np = Len(call.log) + 1
           /\ Len(current_pair) = 2

\* Two decisions have been applied, by "a" and by "d", and a third pair is
\* shown.
C13_Witness ==
    /\ pc = "running"
    /\ call.op = "decision"
    /\ call.key = "d"
    /\ Len(call.log) = 2
    /\ call.log[1] # call.log[2]
    /\ call.np = 3
    /\ elo_rankings # call.old

\* C14: the pair shown is always two distinct keys of the table, and every
\* decision of the session has a winner and a loser that are distinct keys
\* of the table it is applied to.
C14_ShownPairValid ==
    /\ current_pair # None =>
           /\ Len(current_pair) = 2
           /\ current_pair[1] # current_pair[2]
           /\ Has(elo_rankings, current_pair[1])
           /\ Has(elo_rankings, current_pair[2])
    /\ call.op = "decision" =>
           /\ call.w # call.l
           /\ Has(call.old, call.w)
           /\ Has(call.old, call.l)
           /\ call.err # "KeyError"

\* A decision has been applied in a directory that also holds a file that
\* is not an image, and a further pair is shown.
C14_Witness ==
    /\ call.op = "decision"
    /\ call.err = NoErr
    /\ NameText \in dir
    /\ Len(current_pair) = 2
    /\ call.n = 2

\* C15: once the table is loaded, every step that is not a decision (the
\* rankings shown by "r", the save and the end of the session by "e", a
\* key on_key does not name, the window closed) leaves the table as it is;
\* and the pair proposed at startup leaves it as get_rankings returned it.
C15_OnlyDecisionsChangeScores ==
    [][ /\ (pc = "running" /\ call'.op # "decision")
            => elo_rankings' = elo_rankings
        /\ (pc = "start" /\ pc' = "running")
            => \E order \in Perms(Images(dir)) :
                   elo_rankings' = get_rankings(dir, disk, order).r ]_vars

\* The rankings have been shown after a decision, and the table is still
\* the one the decision left.
C15_Witness ==
    /\ call.op = "show_rankings"
    /\ Len(call.log) >= 1
    /\ top_images # <<>>
    /\ elo_rankings = Replay(call.loaded, call.log)
    /\ elo_rankings # call.loaded

\* C16: when IMAGE_DIR holds fewer than 2 images and the table has been
\* loaded, the program is in the state "not_enough", which no session with a
\* pair is ever in: no pair is or was shown, no decision was applied, no key
\* was handled, and the table is as get_rankings returned it.
C16_DeadEnd ==
    (pc \notin {"start", "raised"} /\ Cardinality(Images(dir)) < 2) =>
        /\ pc = "not_enough"
        /\ current_pair = None
        /\ call.np = 0
        /\ call.n = 0
        /\ call.log = <<>>
        /\ call.key = "-"
        /\ \E order \in Perms(Images(dir)) :
               elo_rankings = get_rankings(dir, disk, order).r

\* One image, next to a file that is not an image, with its score read from
\* the score file.
C16_Witness ==
    /\ pc = "not_enough"
    /\ Len(image_filenames) = 1
    /\ NameText \in dir
    /\ Has(elo_rankings, NameB)
    /\ Get(elo_rankings, NameB) = PyFloat(9000 * SCALE)

\* C19: once "e" has been handled the session is closed and stays as "e"
\* left it: no key is handled, no pair proposed and no decision applied
\* after it, and the table in memory is the one the score file holds, with
\* every decision of the session in it.
C19_NothingAfterEnd ==
    call.ended = "e" =>
        /\ pc = "closed"
        /\ call.op = "end"
        /\ call.np = Len(call.log) + 1
        /\ elo_rankings = Replay(call.loaded, call.log)
        /\ disk = File(SaveLines(elo_rankings))

\* "e" after two decisions: the file holds the table they left.
C19_Witness ==
    /\ call.ended = "e"
    /\ pc = "closed"
    /\ Len(call.log) = 2
    /\ disk.exists
    /\ Len(disk.lines) = Len(elo_rankings)
    /\ elo_rankings # call.loaded

RECURSIVE SumScores(_)
SumScores(rankings) ==
    IF rankings = <<>> THEN 0
    ELSE Head(rankings).v.v + SumScores(Tail(rankings))

ResolvedGap == SCALE

====
